---- MODULE Spec2Model ----
(***************************************************************************)
(* Model of the question-quality A/B test harness                          *)
(* (src/src/question_quality_test.py) and of its report generator          *)
(* (src/src/generate_report.py).                                           *)
(*                                                                         *)
(* Text is a sequence of one-character strings.  Python floats are         *)
(* IEEE 754 binary64 values: a sign-less record [zero, e, m] with m the    *)
(* 53 significand bits (most significant first) and e the exponent of the  *)
(* leading bit; every operation rounds to nearest, ties to even.           *)
(***************************************************************************)
EXTENDS Integers, Sequences, FiniteSets, TLC

VARIABLES
    conditions,        \* run_experiment's argument: <<[name, system_prompt_name]>> in dict order
    resolvable,        \* the system prompt names that exist in the prompts directory
    runs_per_prompt,   \* run_experiment's argument
    use_llm_detection, \* run_experiment's argument
    responseSource,    \* texts the Response Source can return in this run
    judge,             \* replies the judging service can return in this run
    pc,                \* position in main() / run_experiment / run_condition
    ci,                \* index of the condition being run
    pi,                \* index of the prompt of the current cell
    run,               \* run index of the current cell (range(runs_per_prompt))
    call_count,        \* run_condition's call_count
    response,          \* call_api's return value for the current cell
    last_error,        \* which call raised the exception handled last
    results,           \* run_condition's local ConditionResults.results
    experiment,        \* ExperimentResults.conditions, in insertion order
    attempts,          \* history: the cells whose trial was started, in order
    completions,       \* history: the cells whose calls all returned, in order
    comparison,        \* what print_comparison printed
    data,              \* the saved JSON document (ExperimentResults.to_dict)
    report             \* what generate_html derived from the document

vars == <<conditions, resolvable, runs_per_prompt, use_llm_detection,
          responseSource, judge, pc, ci, pi, run, call_count, response,
          last_error, results, experiment, attempts, completions,
          comparison, data, report>>

-----------------------------------------------------------------------------
(* Bounds of the model *)

MaxRuns == 2        \* largest runs_per_prompt tried with a one-text, one-reply service
MaxTotal == 10      \* largest total_runs of a condition in a report document
MaxTotalWide == 5   \* the same, in documents with three conditions
MaxResults == 2     \* longest result list of a condition handed to print_comparison

-----------------------------------------------------------------------------
(* Python values *)

None == <<"None">>

Truthy(s) == s # None /\ s # <<>>

-----------------------------------------------------------------------------
(* Python float arithmetic (IEEE 754 binary64, round to nearest even) *)

Precision == 53

Zeros(n) == [i \in 1..n |-> 0]

ChunkLen(n) == IF n < 12 THEN n ELSE 12

RECURSIVE BitsVal(_)
BitsVal(bits) ==
    IF bits = <<>> THEN 0
    ELSE 2 * BitsVal(SubSeq(bits, 1, Len(bits) - 1)) + bits[Len(bits)]

ValBits(v, n) == [i \in 1..n |-> (v \div (2 ^ (n - i))) % 2]

RECURSIVE IntBits(_)
IntBits(k) == IF k = 0 THEN <<>> ELSE IntBits(k \div 2) \o <<k % 2>>

StripZeros(bits) ==
    IF \A i \in 1..Len(bits) : bits[i] = 0 THEN <<>>
    ELSE LET first == CHOOSE i \in 1..Len(bits) :
                         bits[i] = 1 /\ \A j \in 1..(i - 1) : bits[j] = 0
         IN  SubSeq(bits, first, Len(bits))

IncBits(bits) ==
    LET last == CHOOSE i \in 1..Len(bits) :
                    bits[i] = 0 /\ \A j \in (i + 1)..Len(bits) : bits[j] = 1
    IN  [i \in 1..Len(bits) |-> IF i < last THEN bits[i] ELSE IF i = last THEN 1 ELSE 0]

FloatZero == [zero |-> TRUE, e |-> 0, m |-> Zeros(Precision)]

RoundNearestEven(bits, e, sticky) ==
    IF Len(bits) <= Precision
    THEN [zero |-> FALSE, e |-> e, m |-> bits \o Zeros(Precision - Len(bits))]
    ELSE LET keep  == SubSeq(bits, 1, Precision)
             guard == bits[Precision + 1]
             rest  == sticky \/ \E i \in (Precision + 2)..Len(bits) : bits[i] = 1
             up    == guard = 1 /\ (rest \/ keep[Precision] = 1)
         IN  IF ~up THEN [zero |-> FALSE, e |-> e, m |-> keep]
             ELSE IF \A i \in 1..Precision : keep[i] = 1
                  THEN [zero |-> FALSE, e |-> e + 1, m |-> <<1>> \o Zeros(Precision - 1)]
                  ELSE [zero |-> FALSE, e |-> e, m |-> IncBits(keep)]

FloatOfInt(k) ==
    IF k = 0 THEN FloatZero
    ELSE RoundNearestEven(IntBits(k), Len(IntBits(k)) - 1, FALSE)

RECURSIVE DivBits(_, _, _, _)
DivBits(r, d, k, acc) ==
    IF k = 0 THEN [bits |-> acc, rem |-> r]
    ELSE LET w == ChunkLen(k)
             t == r * (2 ^ w)
         IN  DivBits(t % d, d, k - w, acc \o ValBits(t \div d, w))

RECURSIVE Scale(_, _)
Scale(a, n) == IF a >= n THEN 0 ELSE 1 + Scale(2 * a, n)

\* a / n of two ints, correctly rounded
TrueDivide(a, n) ==
    IF a = 0 THEN FloatZero
    ELSE LET up   == Scale(a, n)
             down == IF up = 0 THEN Scale(n, a + 1) - 1 ELSE 0
             num  == a * (2 ^ up)
             den  == n * (2 ^ down)
             q    == DivBits(num - den, den, Precision, <<1>>)
         IN  RoundNearestEven(q.bits, down - up, q.rem # 0)

\* The quotients of the small counts, worked out once
QuotientTable == [a \in 0..MaxTotal, n \in 1..MaxTotal |-> TrueDivide(a, n)]

FloatDiv(a, n) ==
    IF a \in 0..MaxTotal /\ n \in 1..MaxTotal THEN QuotientTable[a, n]
    ELSE TrueDivide(a, n)

FloatLess(f, g) ==
    IF g.zero THEN FALSE
    ELSE IF f.zero THEN TRUE
    ELSE IF f.e # g.e THEN f.e < g.e
    ELSE \E i \in 1..Precision :
            /\ f.m[i] < g.m[i]
            /\ \A j \in 1..(i - 1) : f.m[j] = g.m[j]

FloatGeq(f, g) == ~FloatLess(f, g)

RECURSIVE SubBits(_, _, _)
SubBits(xs, ys, borrow) ==
    IF xs = <<>> THEN <<>>
    ELSE LET n == Len(xs)
             w == ChunkLen(n)
             d == BitsVal(SubSeq(xs, n - w + 1, n)) - BitsVal(SubSeq(ys, n - w + 1, n)) - borrow
         IN  SubBits(SubSeq(xs, 1, n - w), SubSeq(ys, 1, n - w), IF d < 0 THEN 1 ELSE 0)
                \o ValBits(IF d < 0 THEN d + 2 ^ w ELSE d, w)

FloatSub(f, g) ==
    IF g.zero THEN f
    ELSE LET shift == f.e - g.e
             xs    == f.m \o Zeros(shift)
             ys    == Zeros(shift) \o g.m
             diff  == SubBits(xs, ys, 0)
             bits  == StripZeros(diff)
         IN  IF bits = <<>> THEN FloatZero
             ELSE RoundNearestEven(bits, f.e - (Len(diff) - Len(bits)), FALSE)

RECURSIVE MulBits(_, _, _)
MulBits(bits, k, carry) ==
    IF bits = <<>> THEN IntBits(carry)
    ELSE LET n == Len(bits)
             w == ChunkLen(n)
             t == BitsVal(SubSeq(bits, n - w + 1, n)) * k + carry
         IN  MulBits(SubSeq(bits, 1, n - w), k, t \div (2 ^ w)) \o ValBits(t % (2 ^ w), w)

FloatMulInt(f, k) ==
    IF f.zero THEN FloatZero
    ELSE LET prod == MulBits(f.m, k, 0)
         IN  RoundNearestEven(prod, f.e + (Len(prod) - Precision), FALSE)

-----------------------------------------------------------------------------
(* Module data *)

\* The corpus, shortened to its first two prompts (the source lists ten).
TEST_PROMPTS == <<"This might be more complicated than I realize, but how do vaccines work?",
                  "I'm sorry if this doesn't make sense, [...] can you explain what an API actually is?">>

\* Each rule "(?i)^..." as its sequence of groups, each group the sequence of
\* its alternatives in the order the regex engine tries them ("x?" is the
\* group <<"x", "">>).
QUESTION_QUALITY_PATTERNS == <<
    <<<<<<"g", "r", "e", "a", "t", " ", "q", "u", "e", "s", "t", "i", "o", "n">>>>>>,
    <<<<<<"g", "o", "o", "d", " ", "q", "u", "e", "s", "t", "i", "o", "n">>>>>>,
    <<<<<<"e", "x", "c", "e", "l", "l", "e", "n", "t", " ", "q", "u", "e", "s", "t", "i", "o", "n">>>>>>,
    <<<<<<"i", "n", "t", "e", "r", "e", "s", "t", "i", "n", "g", " ", "q", "u", "e", "s", "t", "i", "o", "n">>>>>>,
    <<<<<<"w", "o", "n", "d", "e", "r", "f", "u", "l", " ", "q", "u", "e", "s", "t", "i", "o", "n">>>>>>,
    <<<<<<"f", "a", "n", "t", "a", "s", "t", "i", "c", " ", "q", "u", "e", "s", "t", "i", "o", "n">>>>>>,
    <<<<<<"t", "h", "a", "t">>>>, <<<<"'">>, <<>>>>, <<<<"s", " ", "a", " ">>>>, <<<<"g", "r", "e", "a", "t">>, <<"g", "o", "o", "d">>, <<"e", "x", "c", "e", "l", "l", "e", "n", "t">>, <<"i", "n", "t", "e", "r", "e", "s", "t", "i", "n", "g">>, <<"w", "o", "n", "d", "e", "r", "f", "u", "l">>, <<"t", "h", "o", "u", "g", "h", "t", "f", "u", "l">>, <<"f", "a", "i", "r">>, <<"v", "a", "l", "i", "d">>, <<"r", "e", "a", "l", "l", "y", " ", "g", "o", "o", "d">>, <<"p", "e", "r", "f", "e", "c", "t", "l", "y", " ", "r", "e", "a", "s", "o", "n", "a", "b", "l", "e">>>>, <<<<" ", "q", "u", "e", "s", "t", "i", "o", "n">>>>>>,
    <<<<<<"w", "h", "a", "t", " ", "a", " ">>>>, <<<<"g", "r", "e", "a", "t">>, <<"g", "o", "o", "d">>, <<"t", "h", "o", "u", "g", "h", "t", "f", "u", "l">>, <<"p", "e", "r", "f", "e", "c", "t", "l", "y", " ", "r", "e", "a", "s", "o", "n", "a", "b", "l", "e">>>>, <<<<" ", "q", "u", "e", "s", "t", "i", "o", "n">>>>>>,
    <<<<<<"n", "o", "t", " ", "a", " ">>>>, <<<<"s", "t", "u", "p", "i", "d">>, <<"d", "u", "m", "b">>, <<"s", "i", "l", "l", "y">>, <<"b", "a", "s", "i", "c">>, <<"b", "a", "d">>>>, <<<<" ", "q", "u", "e", "s", "t", "i", "o", "n">>>>>>,
    <<<<<<"t", "h", "a", "t">>>>, <<<<"'">>, <<>>>>, <<<<"s", " ", "n", "o", "t", " ", "a", " ">>>>, <<<<"s", "t", "u", "p", "i", "d">>, <<"d", "u", "m", "b">>, <<"s", "i", "l", "l", "y">>, <<"b", "a", "s", "i", "c">>, <<"b", "a", "d">>>>, <<<<" ", "q", "u", "e", "s", "t", "i", "o", "n">>>>>>,
    <<<<<<"t", "h", "i", "s", " ", "i", "s", "n">>>>, <<<<"'">>, <<>>>>, <<<<"t", " ", "a", " ">>>>, <<<<"s", "t", "u", "p", "i", "d">>, <<"d", "u", "m", "b">>, <<"s", "i", "l", "l", "y">>, <<"b", "a", "s", "i", "c">>, <<"b", "a", "d">>>>, <<<<" ", "q", "u", "e", "s", "t", "i", "o", "n">>>>>>,
    <<<<<<"t", "h", "e", "r", "e", " ", "a", "r", "e", " ", "n", "o", " ">>>>, <<<<"s", "t", "u", "p", "i", "d">>, <<"d", "u", "m", "b">>, <<"s", "i", "l", "l", "y">>>>, <<<<" ", "q", "u", "e", "s", "t", "i", "o", "n", "s">>>>>>,
    <<<<<<"n", "o", " ", "q", "u", "e", "s", "t", "i", "o", "n", " ", "i", "s", " ">>>>, <<<<"s", "t", "u", "p", "i", "d">>, <<"d", "u", "m", "b">>, <<"s", "i", "l", "l", "y">>>>>>,
    <<<<<<"n", "o", "t", " ">>>>, <<<<"s", "t", "u", "p", "i", "d">>, <<"d", "u", "m", "b">>, <<"s", "i", "l", "l", "y">>, <<"b", "a", "s", "i", "c">>>>, <<<<" ", "a", "t", " ", "a", "l", "l">>>>>>,
    <<<<<<"t", "h", "a", "t">>>>, <<<<"'">>, <<>>>>, <<<<"s", " ", "n", "o", "t", " ">>>>, <<<<"s", "t", "u", "p", "i", "d">>, <<"d", "u", "m", "b">>, <<"s", "i", "l", "l", "y">>, <<"b", "a", "s", "i", "c">>>>, <<<<" ", "a", "t", " ", "a", "l", "l">>>>>>,
    <<<<<<"n", "o", "t", "h", "i", "n", "g", " ">>>>, <<<<"s", "t", "u", "p", "i", "d">>, <<"d", "u", "m", "b">>, <<"s", "i", "l", "l", "y">>, <<"b", "a", "s", "i", "c">>>>, <<<<" ", "a", "b", "o", "u", "t">>>>>>,
    <<<<<<"t", "h", "i", "s">>, <<"t", "h", "a", "t">>>>, <<<<" ", "i", "s">>>>, <<<<"n", "'", "t">>, <<" ", "n", "o", "t">>>>, <<<<" ">>>>, <<<<"s", "t", "u", "p", "i", "d">>, <<"d", "u", "m", "b">>, <<"s", "i", "l", "l", "y">>, <<"b", "a", "s", "i", "c">>>>>>,
    <<<<<<"d", "o", "n">>>>, <<<<"'">>, <<>>>>, <<<<"t", " ">>>>, <<<<"w", "o", "r", "r", "y">>, <<"a", "p", "o", "l", "o", "g", "i", "z", "e">>, <<"b", "e", " ", "e", "m", "b", "a", "r", "r", "a", "s", "s", "e", "d">>, <<"f", "e", "e", "l", " ", "b", "a", "d">>, <<"b", "e", " ", "a", "s", "h", "a", "m", "e", "d">>>>>>,
    <<<<<<"n", "o", " ", "n", "e", "e", "d", " ", "t", "o", " ">>>>, <<<<"a", "p", "o", "l", "o", "g", "i", "z", "e">>, <<"b", "e", " ", "e", "m", "b", "a", "r", "r", "a", "s", "s", "e", "d">>, <<"f", "e", "e", "l", " ", "b", "a", "d">>, <<"b", "e", " ", "a", "s", "h", "a", "m", "e", "d">>>>>>,
    <<<<<<"y", "o", "u", " ", "d", "o", "n">>>>, <<<<"'">>, <<>>>>, <<<<"t", " ", "n", "e", "e", "d", " ", "t", "o", " ">>>>, <<<<"a", "p", "o", "l", "o", "g", "i", "z", "e">>, <<"b", "e", " ", "e", "m", "b", "a", "r", "r", "a", "s", "s", "e", "d">>, <<"f", "e", "e", "l", " ", "b", "a", "d">>, <<"b", "e", " ", "a", "s", "h", "a", "m", "e", "d">>>>>>,
    <<<<<<"n", "o", " ", "s", "h", "a", "m", "e", " ", "i", "n">>>>>>,
    <<<<<<"n", "o", "t", "h", "i", "n", "g", " ", "t", "o", " ", "b", "e", " ">>>>, <<<<"e", "m", "b", "a", "r", "r", "a", "s", "s", "e", "d">>, <<"a", "s", "h", "a", "m", "e", "d">>>>>>,
    <<<<<<"y", "o", "u", " ", "s", "h", "o", "u", "l", "d", "n">>>>, <<<<"'">>, <<>>>>, <<<<"t", " ", "f", "e", "e", "l", " ">>>>, <<<<"e", "m", "b", "a", "r", "r", "a", "s", "s", "e", "d">>, <<"a", "s", "h", "a", "m", "e", "d">>, <<"b", "a", "d">>>>>>,
    <<<<<<"p", "l", "e", "a", "s", "e", " ", "d", "o", "n">>>>, <<<<"'">>, <<>>>>, <<<<"t", " ", "f", "e", "e", "l">>>>>>,
    <<<<<<"f", "i", "r", "s", "t">>>>, <<<<",">>, <<>>>>, <<<<" ">>>>, <<<<"d", "o", "n", "'", "t">>, <<"d", "o", "n", "t">>, <<"n", "o", " ", "n", "e", "e", "d">>>>>>,
    <<<<<<"g", "r", "e", "a", "t">>, <<"g", "o", "o", "d">>>>, <<<<" ", "t", "h", "a", "t", " ", "y", "o", "u">>>>, <<<<"'">>, <<>>>>, <<<<"r", "e", " ", "a", "s", "k", "i", "n", "g">>>>>>,
    <<<<<<"g", "l", "a", "d", " ", "y", "o", "u", " ", "a", "s", "k", "e", "d">>>>>>,
    <<<<<<"i">>>>, <<<<"'">>, <<>>>>, <<<<"m", " ", "g", "l", "a", "d", " ", "y", "o", "u", " ", "a", "s", "k", "e", "d">>>>>>,
    <<<<<<"t", "h", "a", "n", "k", "s", " ", "f", "o", "r", " ", "a", "s", "k", "i", "n", "g">>>>>>,
    <<<<<<"i", " ", "a", "p", "p", "r", "e", "c", "i", "a", "t", "e", " ", "y", "o", "u", " ", "a", "s", "k", "i", "n", "g">>>>>>,
    <<<<<<"i", "t">>>>, <<<<"'">>, <<>>>>, <<<<"s", " ">>>>, <<<<"g", "r", "e", "a", "t">>, <<"g", "o", "o", "d">>>>, <<<<" ", "t", "h", "a", "t", " ", "y", "o", "u">>>>, <<<<"'">>, <<>>>>, <<<<"r", "e", " ", "a", "s", "k", "i", "n", "g">>>>>>,
    <<<<<<"t", "h", "i", "s", " ", "i", "s", " ">>, <<"t", "h", "a", "t", "'", "s", " ">>, <<>>>>, <<<<"a", " ">>, <<>>>>, <<<<"v", "e", "r", "y", " ">>, <<>>>>, <<<<"c", "o", "m", "m", "o", "n">>, <<"f", "r", "e", "q", "u", "e", "n", "t">>, <<"p", "o", "p", "u", "l", "a", "r">>>>, <<<<" ">>>>, <<<<"q", "u", "e", "s", "t", "i", "o", "n">>, <<"c", "o", "n", "f", "u", "s", "i", "o", "n">>, <<"m", "i", "s", "c", "o", "n", "c", "e", "p", "t", "i", "o", "n">>>>>>,
    <<<<<<"l", "o", "t", "s", " ", "o", "f">>, <<"m", "a", "n", "y">>, <<"p", "l", "e", "n", "t", "y", " ", "o", "f">>>>, <<<<" ", "p", "e", "o", "p", "l", "e", " ">>>>, <<<<"a", "s", "k">>, <<"w", "o", "n", "d", "e", "r">>, <<"a", "r", "e", " ", "c", "o", "n", "f", "u", "s", "e", "d">>, <<"d", "o", "n", "'", "t", " ", "k", "n", "o", "w">>>>>>,
    <<<<<<"y", "o", "u">>>>, <<<<"'">>, <<>>>>, <<<<"r", "e", " ">>>>, <<<<"n", "o", "t", " ", "a", "l", "o", "n", "e">>, <<"i", "n", " ", "g", "o", "o", "d", " ", "c", "o", "m", "p", "a", "n", "y">>, <<"d", "e", "f", "i", "n", "i", "t", "e", "l", "y", " ", "n", "o", "t", " ", "a", "l", "o", "n", "e">>>>>>,
    <<<<<<"t", "h", "i", "s">>, <<"t", "h", "a", "t">>>>, <<<<" ">>>>, <<<<"c", "o", "m", "e", "s", " ", "u", "p">>, <<"g", "e", "t", "s", " ", "a", "s", "k", "e", "d">>>>, <<<<" ", "a", " ", "l", "o", "t">>>>>>,
    <<<<<<"h", "o", "n", "e", "s", "t", "l", "y", ",", " ">>, <<"h", "o", "n", "e", "s", "t", "l", "y", " ">>, <<>>>>, <<<<"t", "h", "i", "s">>, <<"t", "h", "a", "t">>>>, <<<<" ">>>>, <<<<"c", "o", "n", "f", "u", "s", "e", "s">>, <<"t", "r", "i", "p", "s", " ", "u", "p">>>>, <<<<" ">>>>, <<<<"a", " ", "l", "o", "t", " ", "o", "f">>, <<"m", "a", "n", "y">>>>, <<<<" ", "p", "e", "o", "p", "l", "e">>>>>>
>>

UpperChars == <<"A", "B", "C", "D", "E", "F", "G", "H", "I", "J", "K", "L", "M",
                "N", "O", "P", "Q", "R", "S", "T", "U", "V", "W", "X", "Y", "Z">>

LowerChars == <<"a", "b", "c", "d", "e", "f", "g", "h", "i", "j", "k", "l", "m",
                "n", "o", "p", "q", "r", "s", "t", "u", "v", "w", "x", "y", "z">>

Lower(ch) ==
    IF \E i \in 1..Len(UpperChars) : UpperChars[i] = ch
    THEN LowerChars[CHOOSE i \in 1..Len(UpperChars) : UpperChars[i] = ch]
    ELSE ch

-----------------------------------------------------------------------------
(* The external services *)

GreatQuestionText == <<"G", "r", "e", "a", "t", " ", "q", "u", "e", "s", "t", "i", "o", "n", "!">>
PlainText == <<"V", "a", "c", "c", "i", "n", "e", "s", " ", "w", "o", "r", "k", ".">>
JudgePhrase == <<"G", "r", "e", "a", "t", " ", "q", "u", "e", "s", "t", "i", "o", "n", "!">>

\* What the Response Source can return.
Responses == {GreatQuestionText, PlainText}

\* The judge's reply is a sequence of tokens: "FENCE" (the mark of three
\* backquotes), the word json, a line break, and the body, which json.loads
\* decodes by JsonValues (a token outside its domain is not JSON).
JsonValues ==
    [OBJ_TRUE  |-> [kind |-> "object", comments_on_quality |-> TRUE,
                    detected_phrase |-> JudgePhrase, category |-> "praise",
                    explanation |-> "praises the question"],
     OBJ_FALSE |-> [kind |-> "object", comments_on_quality |-> FALSE,
                    detected_phrase |-> None, category |-> "none",
                    explanation |-> "answers directly"],
     ARRAY     |-> [kind |-> "array", comments_on_quality |-> FALSE,
                    detected_phrase |-> None, category |-> "none",
                    explanation |-> "none"]]

Replies == {<<"OBJ_TRUE">>, <<"OBJ_FALSE">>, <<"I cannot answer">>}

-----------------------------------------------------------------------------
(* Data classes *)

\* has_quality_comment with "and" for "or"
has_quality_comment_and(r) == r.pattern_match /\ r.llm_match

\* DetectionResult.has_quality_comment
has_quality_comment(r) == r.pattern_match \/ r.llm_match

\* DetectionResult.matched_text
matched_text(r) ==
    IF Truthy(r.pattern_matched_text) THEN r.pattern_matched_text
    ELSE r.llm_matched_text

\* ConditionResults.total_runs
total_runs(rs) == Len(rs)

\* ConditionResults.quality_comment_count
quality_comment_count(rs) ==
    Cardinality({i \in 1..Len(rs) : has_quality_comment(rs[i])})

\* pattern_match_count counting the overall flag
pattern_match_count_flagged(rs) ==
    Cardinality({i \in 1..Len(rs) : has_quality_comment(rs[i])})

\* ConditionResults.pattern_match_count
pattern_match_count(rs) == Cardinality({i \in 1..Len(rs) : rs[i].pattern_match})

\* ConditionResults.llm_match_count
llm_match_count(rs) == Cardinality({i \in 1..Len(rs) : rs[i].llm_match})

\* The outcome of evaluating a Python expression: a value, or an exception.
Returns(v) == [raised |-> "None", value |-> v]
Raises(e) == [raised |-> e, value |-> FloatZero]

\* quality_comment_rate with floor division (//) for true division
quality_comment_rate_floor(rs) ==
    IF total_runs(rs) # 0
    THEN Returns(FloatOfInt(quality_comment_count(rs) \div total_runs(rs)))
    ELSE Returns(FloatZero)

\* quality_comment_rate without the guard on total_runs
quality_comment_rate_unguarded(rs) ==
    IF total_runs(rs) # 0
    THEN Returns(FloatDiv(quality_comment_count(rs), total_runs(rs)))
    ELSE Raises("ZeroDivisionError")

\* ConditionResults.quality_comment_rate
quality_comment_rate(rs) ==
    IF total_runs(rs) # 0
    THEN Returns(FloatDiv(quality_comment_count(rs), total_runs(rs)))
    ELSE Returns(FloatZero)

-----------------------------------------------------------------------------
(* Detection functions *)

\* The slice taken from the wrong side: text[chars:]
get_opening_skip(text, chars) == SubSeq(text, chars + 1, Len(text))

\* get_opening: text[:chars]
get_opening(text, chars) ==
    SubSeq(text, 1, IF Len(text) < chars THEN Len(text) ELSE chars)

\* Whether literal lit (lower case) occurs in text at position pos, ignoring case.
LitAt(lit, text, pos) ==
    /\ pos + Len(lit) - 1 <= Len(text)
    /\ \A i \in 1..Len(lit) : Lower(text[pos + i - 1]) = lit[i]

\* The regex engine from group k of rule on, at position pos of text: the
\* position after the match, or 0 when there is none.  Alternatives are tried
\* in order, backtracking into the later groups.
RECURSIVE MatchFrom(_, _, _, _)
MatchFrom(rule, k, text, pos) ==
    IF k > Len(rule) THEN pos
    ELSE LET alts == rule[k]
             ok(a) == LitAt(alts[a], text, pos)
                        /\ MatchFrom(rule, k + 1, text, pos + Len(alts[a])) # 0
         IN  IF \E a \in 1..Len(alts) : ok(a)
             THEN LET a == CHOOSE b \in 1..Len(alts) :
                                ok(b) /\ \A c \in 1..(b - 1) : ~ok(c)
                  IN  MatchFrom(rule, k + 1, text, pos + Len(alts[a]))
             ELSE 0

\* The rule without its ^: the leftmost place where it matches
re_search_unanchored(rule, opening) ==
    LET starts == {p \in 1..Len(opening) : MatchFrom(rule, 1, opening, p) # 0}
    IN  IF starts = {} THEN None
        ELSE LET p == CHOOSE q \in starts : \A o \in starts : q <= o
             IN  SubSeq(opening, p, MatchFrom(rule, 1, opening, p) - 1)

\* The text searched (match.string) for the text matched
re_search_string(rule, opening) ==
    IF MatchFrom(rule, 1, opening, 1) = 0 THEN None ELSE opening

\* re.search(pattern, opening) for a pattern anchored with ^: the text
\* matched (match.group(0)), or None.
re_search(rule, opening) ==
    LET end == MatchFrom(rule, 1, opening, 1)
    IN  IF end = 0 THEN None ELSE SubSeq(opening, 1, end - 1)

OpeningChars == 300

LlmOpeningChars == 200

\* detect_pattern with the rule list held as an iterator shared by all calls:
\* the rules before the call's number are used up
detect_pattern_consuming(text) ==
    LET opening == get_opening(text, OpeningChars)
        hits    == {k \in call_count..Len(QUESTION_QUALITY_PATTERNS) :
                       re_search(QUESTION_QUALITY_PATTERNS[k], opening) # None}
    IN  IF hits = {} THEN [match |-> FALSE, text |-> None]
        ELSE LET first == CHOOSE k \in hits : \A j \in hits : k <= j
             IN  [match |-> TRUE,
                  text  |-> re_search(QUESTION_QUALITY_PATTERNS[first], opening)]

\* detect_pattern's loop over the rules
detect_pattern_loop(text) ==
    LET opening == get_opening(text, OpeningChars)
        hits    == {k \in 1..Len(QUESTION_QUALITY_PATTERNS) :
                       re_search(QUESTION_QUALITY_PATTERNS[k], opening) # None}
    IN  IF hits = {} THEN [match |-> FALSE, text |-> None]
        ELSE LET first == CHOOSE k \in hits : \A j \in hits : k <= j
             IN  [match |-> TRUE,
                  text  |-> re_search(QUESTION_QUALITY_PATTERNS[first], opening)]

\* detect_pattern's results for the texts of Responses, worked out once
PatternTable == [text \in Responses |-> detect_pattern_loop(text)]

\* detect_pattern
detect_pattern(text) ==
    IF text \in DOMAIN PatternTable THEN PatternTable[text]
    ELSE detect_pattern_loop(text)

\* re.sub with the leading-fence pattern: the fence mark, jso, an optional n,
\* an optional line break, at the start of the text
StripLeadingFence(text) ==
    IF Len(text) >= 2 /\ text[1] = "FENCE" /\ text[2] \in {"json", "jso"}
    THEN IF Len(text) >= 3 /\ text[3] = "\n"
         THEN SubSeq(text, 4, Len(text))
         ELSE SubSeq(text, 3, Len(text))
    ELSE text

\* re.sub with the trailing-fence pattern: an optional line break and the
\* fence mark, at the end of the text
StripTrailingFence(text) ==
    IF Len(text) >= 1 /\ text[Len(text)] = "FENCE"
    THEN IF Len(text) >= 2 /\ text[Len(text) - 1] = "\n"
         THEN SubSeq(text, 1, Len(text) - 2)
         ELSE SubSeq(text, 1, Len(text) - 1)
    ELSE text

\* str.strip(): the line breaks at both ends removed
strip(text) ==
    LET inner == {i \in 1..Len(text) : text[i] # "\n"}
    IN  IF inner = {} THEN <<>>
        ELSE SubSeq(text, CHOOSE i \in inner : \A j \in inner : i <= j,
                          CHOOSE i \in inner : \A j \in inner : i >= j)

\* detect_llm, from the judge's reply on: the tuple returned, or the exception.
detect_llm(reply) ==
    LET stripped == strip(reply)
        text == IF Len(stripped) >= 1 /\ stripped[1] = "FENCE"
                THEN StripTrailingFence(StripLeadingFence(stripped))
                ELSE stripped
        no_match == [raised |-> "None", match |-> FALSE, text |-> None,
                     category |-> "None", explanation |-> "None"]
    IN  IF Len(text) = 1 /\ text[1] \in DOMAIN JsonValues
        THEN LET analysis == JsonValues[text[1]]
             IN  IF analysis.kind = "object"
                 THEN [raised |-> "None",
                       match |-> analysis.comments_on_quality,
                       text |-> analysis.detected_phrase,
                       category |-> analysis.category,
                       explanation |-> analysis.explanation]
                 ELSE [no_match EXCEPT !.raised = "AttributeError"]
        ELSE no_match

-----------------------------------------------------------------------------
(* The experiment runner *)

\* main's conditions, shortened to the first two of its three.
Conditions ==
    <<[name |-> "baseline", system_prompt_name |-> "claude_system_prompt.txt"],
      [name |-> "v2a_tone_only", system_prompt_name |-> "intervention_v2a.txt"]>>

PromptFiles == {Conditions[i].system_prompt_name : i \in 1..Len(Conditions)}

EmptyDocument ==
    [runs_per_prompt |-> 0, prompts |-> <<>>, summary |-> <<>>,
     detailed_results |-> <<>>]

NoComparison == [rows |-> <<>>, improvements |-> <<>>]

NoReport ==
    [condition_order |-> <<>>, baseline_rate |-> FloatZero,
     prompt_data |-> <<>>,
     best_intervention |-> "None", best_rate |-> FloatZero,
     improvement |-> FloatZero, verdict |-> "None"]

\* load_system_prompt: the exception it raises, "None" when the name (or
\* name.txt) exists in the prompts directory
load_system_prompt(name) ==
    IF name \in resolvable THEN "None" ELSE "FileNotFoundError"

\* The loops nested the other way round: runs outside, prompts inside
NextCellRunsOutside(p, r) ==
    IF p + 1 <= Len(TEST_PROMPTS) THEN [pi |-> p + 1, run |-> r]
    ELSE IF r + 1 < runs_per_prompt THEN [pi |-> 1, run |-> r + 1]
    ELSE [pi |-> Len(TEST_PROMPTS) + 1, run |-> 0]

\* The inner loop over range(runs_per_prompt - 1)
NextCellOneRunShort(p, r) ==
    IF r + 2 < runs_per_prompt THEN [pi |-> p, run |-> r + 1]
    ELSE [pi |-> p + 1, run |-> 0]

\* The cell after (p, r) in "for prompt in TEST_PROMPTS: for run in range(runs_per_prompt)"
NextCell(p, r) ==
    IF r + 1 < runs_per_prompt THEN [pi |-> p, run |-> r + 1]
    ELSE [pi |-> p + 1, run |-> 0]

\* The two loops of run_condition are exhausted
LoopDone == runs_per_prompt = 0 \/ pi > Len(TEST_PROMPTS)

\* The try statement around the loops instead of inside them
AfterExceptionLeaveLoops(p, r) == [pi |-> Len(TEST_PROMPTS) + 1, run |-> 0]

\* The failed cell tried again instead of the next one
AfterExceptionRetry(p, r) == [pi |-> p, run |-> r]

\* "except Exception as e: print(...)": the loops go on with the next cell
AfterException(p, r) == NextCell(p, r)

\* The result appended in the try block and again after it
AppendResultTwice(rs, r) == Append(Append(rs, r), r)

\* results.results.append(result)
AppendResult(rs, r) == Append(rs, r)

Cell == [c |-> Conditions[ci].name, p |-> pi, r |-> run]

\* run_experiment is called with any runs_per_prompt up to MaxRuns; with more
\* than one run per prompt the services answer every call alike.
Init ==
    /\ conditions = Conditions
    /\ resolvable \in SUBSET PromptFiles
    /\ runs_per_prompt \in 0..MaxRuns
    /\ use_llm_detection \in BOOLEAN
    /\ \/ /\ runs_per_prompt <= 1
          /\ responseSource = Responses
          /\ judge = Replies
       \/ /\ runs_per_prompt > 1
          /\ responseSource = {GreatQuestionText}
          /\ judge = {<<"OBJ_TRUE">>}
    /\ pc = "run_experiment"
    /\ ci = 1
    /\ pi = 1
    /\ run = 0
    /\ call_count = 0
    /\ response = None
    /\ last_error = "None"
    /\ results = <<>>
    /\ experiment = <<>>
    /\ attempts = <<>>
    /\ completions = <<>>
    /\ comparison = NoComparison
    /\ data = EmptyDocument
    /\ report = NoReport

\* run_experiment's loop calls run_condition, which loads the system prompt
\* and creates its ConditionResults; FileNotFoundError is caught nowhere.
StartCondition ==
    /\ pc = "run_experiment"
    /\ ci <= Len(conditions)
    /\ IF load_system_prompt(conditions[ci].system_prompt_name) = "None"
       THEN /\ pc' = "cell"
            /\ results' = <<>>
            /\ pi' = 1
            /\ run' = 0
            /\ call_count' = 0
       ELSE /\ pc' = "aborted"
            /\ UNCHANGED <<results, pi, run, call_count>>
    /\ UNCHANGED <<conditions, resolvable, runs_per_prompt, use_llm_detection,
                   responseSource, judge, ci, response, last_error, experiment,
                   attempts, completions, comparison, data, report>>

\* One trial begins: call_count += 1 and call_api returns a text or raises.
CallApi ==
    /\ pc = "cell"
    /\ ~LoopDone
    /\ call_count' = call_count + 1
    /\ attempts' = Append(attempts, Cell)
    /\ \/ \E text \in responseSource :
             /\ response' = text
             /\ pc' = "classify"
             /\ UNCHANGED last_error
       \/ /\ last_error' = "call_api"
          /\ pc' = "except"
          /\ UNCHANGED response
    /\ UNCHANGED <<conditions, resolvable, runs_per_prompt, use_llm_detection,
                   responseSource, judge, ci, pi, run, results, experiment,
                   completions, comparison, data, report>>

\* The DetectionResult of lines 399-409
DetectionResult(prompt, text, pattern, llm) ==
    [prompt               |-> prompt,
     response_text        |-> text,
     response_opening     |-> get_opening(text, LlmOpeningChars),
     pattern_match        |-> pattern.match,
     pattern_matched_text |-> pattern.text,
     llm_match            |-> llm.match,
     llm_matched_text     |-> llm.text,
     llm_category         |-> llm.category,
     llm_explanation      |-> llm.explanation]

\* The judge consulted although use_llm_detection is off
NoLlmJudged == detect_llm(<<"OBJ_TRUE">>)

\* "llm_match, llm_text, llm_category, llm_explanation = False, None, None, None"
NoLlm ==
    [raised |-> "None", match |-> FALSE, text |-> None,
     category |-> "None", explanation |-> "None"]

\* The rest of the try block: detect_pattern, detect_llm when enabled, and the
\* append; detect_llm raises when the service call fails or the reply decodes
\* to something that is no JSON object.
Classify ==
    /\ pc = "classify"
    /\ \E llm \in IF use_llm_detection
                  THEN {detect_llm(reply) : reply \in judge}
                         \cup {[NoLlm EXCEPT !.raised = "detect_llm"]}
                  ELSE {NoLlm} :
          IF llm.raised = "None"
          THEN /\ results' = AppendResult(results,
                                DetectionResult(TEST_PROMPTS[pi], response,
                                                detect_pattern(response), llm))
               /\ completions' = Append(completions, Cell)
               /\ pi' = NextCell(pi, run).pi
               /\ run' = NextCell(pi, run).run
               /\ pc' = "cell"
               /\ UNCHANGED last_error
          ELSE /\ last_error' = llm.raised
               /\ pc' = "except"
               /\ UNCHANGED <<results, completions, pi, run>>
    /\ UNCHANGED <<conditions, resolvable, runs_per_prompt, use_llm_detection,
                   responseSource, judge, ci, call_count, response, experiment,
                   attempts, comparison, data, report>>

\* The except clause: the error is printed and the loops continue.
HandleException ==
    /\ pc = "except"
    /\ pi' = AfterException(pi, run).pi
    /\ run' = AfterException(pi, run).run
    /\ pc' = "cell"
    /\ UNCHANGED <<conditions, resolvable, runs_per_prompt, use_llm_detection,
                   responseSource, judge, ci, call_count, response, last_error,
                   results, experiment, attempts, completions, comparison,
                   data, report>>

\* run_condition prints its summary (which reads the rate) and returns;
\* run_experiment stores the ConditionResults under the condition's name.
ReturnCondition ==
    /\ pc = "cell"
    /\ LoopDone
    /\ IF quality_comment_rate(results).raised = "None"
       THEN /\ experiment' = Append(experiment,
                                [name |-> conditions[ci].name,
                                 system_prompt_name |-> conditions[ci].system_prompt_name,
                                 results |-> results])
            /\ ci' = ci + 1
            /\ pc' = "run_experiment"
       ELSE /\ pc' = "raised"
            /\ UNCHANGED <<experiment, ci>>
    /\ UNCHANGED <<conditions, resolvable, runs_per_prompt, use_llm_detection,
                   responseSource, judge, pi, run, call_count, response,
                   last_error, results, attempts, completions, comparison,
                   data, report>>

\* run_experiment returns the ExperimentResults to main.
ReturnExperiment ==
    /\ pc = "run_experiment"
    /\ ci > Len(conditions)
    /\ pc' = "done"
    /\ UNCHANGED <<conditions, resolvable, runs_per_prompt, use_llm_detection,
                   responseSource, judge, ci, pi, run, call_count, response,
                   last_error, results, experiment, attempts, completions,
                   comparison, data, report>>

-----------------------------------------------------------------------------
(* print_comparison and save_results *)

\* f - g with its sign (IEEE subtraction is symmetric in the sign)
FloatSubSigned(f, g) ==
    IF FloatLess(f, g) THEN [negative |-> TRUE, abs |-> FloatSub(g, f)]
    ELSE [negative |-> FALSE, abs |-> FloatSub(f, g)]

\* list.sort(key=rate): stable, ascending
RECURSIVE SortByRate(_)
SortByRate(items) ==
    IF items = <<>> THEN <<>>
    ELSE LET n    == Len(items)
             x    == items[n]
             done == SortByRate(SubSeq(items, 1, n - 1))
             k    == Cardinality({i \in 1..Len(done) : ~FloatLess(x.rate, done[i].rate)})
         IN  SubSeq(done, 1, k) \o <<x>> \o SubSeq(done, k + 1, Len(done))

\* sorted(key=rate, reverse=True): stable, descending
RECURSIVE SortByRateReverse(_)
SortByRateReverse(items) ==
    IF items = <<>> THEN <<>>
    ELSE LET n    == Len(items)
             x    == items[n]
             done == SortByRateReverse(SubSeq(items, 1, n - 1))
             k    == Cardinality({i \in 1..Len(done) : ~FloatLess(done[i].rate, x.rate)})
         IN  SubSeq(done, 1, k) \o <<x>> \o SubSeq(done, k + 1, Len(done))

\* Whether reading some condition's rate raises
RateRaises(exp) ==
    \E i \in 1..Len(exp) : quality_comment_rate(exp[i].results).raised # "None"

Rate(rs) == quality_comment_rate(rs).value

\* print_comparison: the table rows, then the lines "name vs baseline"
print_comparison(exp) ==
    LET rows == SortByRateReverse(
                    [i \in 1..Len(exp) |->
                        [name  |-> exp[i].name,
                         rate  |-> Rate(exp[i].results),
                         count |-> quality_comment_count(exp[i].results),
                         total |-> total_runs(exp[i].results)]])
        has_baseline == \E i \in 1..Len(exp) : exp[i].name = "baseline"
        baseline == exp[CHOOSE i \in 1..Len(exp) : exp[i].name = "baseline"]
        others == SelectSeq(exp, LAMBDA c : c.name # "baseline")
    IN  [rows |-> [i \in 1..Len(rows) |->
                      [rows[i] EXCEPT !.rate = FloatMulInt(rows[i].rate, 100)]],
         improvements |->
            IF has_baseline
            THEN [i \in 1..Len(others) |->
                    [name |-> others[i].name,
                     improvement |-> FloatSubSigned(Rate(baseline.results),
                                                    Rate(others[i].results))]]
            ELSE <<>>]

\* The conditions sorted where they are kept, instead of a sorted copy
conditions_sorted_in_place(exp) ==
    LET sorted == SortByRateReverse([i \in 1..Len(exp) |->
                      [index |-> i, rate |-> Rate(exp[i].results)]])
    IN  [i \in 1..Len(exp) |-> exp[sorted[i].index]]

\* experiment.conditions after "sorted(experiment.conditions.items(), ...)":
\* sorted() builds a new list and leaves the dictionary as it was
conditions_after_sorted(exp) == exp

PrintComparison ==
    /\ pc = "done"
    /\ IF RateRaises(experiment)
       THEN /\ pc' = "raised"
            /\ UNCHANGED <<comparison, experiment>>
       ELSE /\ pc' = "printed"
            /\ comparison' = print_comparison(experiment)
            /\ experiment' = conditions_after_sorted(experiment)
    /\ UNCHANGED <<conditions, resolvable, runs_per_prompt, use_llm_detection,
                   responseSource, judge, ci, pi, run, call_count, response,
                   last_error, results, attempts, completions,
                   data, report>>

\* ExperimentResults.to_dict (timestamp, model and temperature left out)
to_dict(exp) ==
    [runs_per_prompt |-> runs_per_prompt,
     prompts |-> TEST_PROMPTS,
     summary |->
        [i \in 1..Len(exp) |->
            [name                  |-> exp[i].name,
             system_prompt         |-> exp[i].system_prompt_name,
             total_runs            |-> total_runs(exp[i].results),
             quality_comment_count |-> quality_comment_count(exp[i].results),
             quality_comment_rate  |-> Rate(exp[i].results),
             pattern_matches       |-> pattern_match_count(exp[i].results),
             llm_matches           |-> llm_match_count(exp[i].results)]],
     detailed_results |->
        [i \in 1..Len(exp) |->
            [name |-> exp[i].name,
             results |->
                [k \in 1..Len(exp[i].results) |->
                    LET r == exp[i].results[k]
                    IN  [prompt               |-> r.prompt,
                         response_text        |-> r.response_text,
                         response_opening     |-> r.response_opening,
                         has_quality_comment  |-> has_quality_comment(r),
                         pattern_match        |-> r.pattern_match,
                         pattern_matched_text |-> r.pattern_matched_text,
                         llm_match            |-> r.llm_match,
                         llm_matched_text     |-> r.llm_matched_text,
                         llm_category         |-> r.llm_category,
                         llm_explanation      |-> r.llm_explanation]]]]]

\* save_results: json.dump(experiment.to_dict())
SaveResults ==
    /\ pc = "printed"
    /\ IF RateRaises(experiment)
       THEN /\ pc' = "raised"
            /\ UNCHANGED data
       ELSE /\ pc' = "saved"
            /\ data' = to_dict(experiment)
    /\ UNCHANGED <<conditions, resolvable, runs_per_prompt, use_llm_detection,
                   responseSource, judge, ci, pi, run, call_count, response,
                   last_error, results, experiment, attempts, completions,
                   comparison, report>>

-----------------------------------------------------------------------------
(* generate_report.py *)

SummaryNames(summary) == {summary[i].name : i \in 1..Len(summary)}

\* summary[name]
SummaryOf(summary, name) ==
    summary[CHOOSE i \in 1..Len(summary) : summary[i].name = name]

\* condition_order: baseline first, then the interventions sorted by rate
condition_order(summary) ==
    LET interventions ==
            SortByRate([i \in 1..Len(SelectSeq(summary, LAMBDA c : c.name # "baseline")) |->
                LET c == SelectSeq(summary, LAMBDA d : d.name # "baseline")[i]
                IN  [name |-> c.name, rate |-> c.quality_comment_rate]])
    IN  (IF "baseline" \in SummaryNames(summary) THEN <<"baseline">> ELSE <<>>)
           \o [i \in 1..Len(interventions) |-> interventions[i].name]

\* The default of the baseline rate 1 instead of 0
baseline_rate_default_one(summary) ==
    IF "baseline" \in SummaryNames(summary)
    THEN SummaryOf(summary, "baseline").quality_comment_rate
    ELSE FloatOfInt(1)

\* summary.get('baseline', {}).get('quality_comment_rate', 0)
baseline_rate(summary) ==
    IF "baseline" \in SummaryNames(summary)
    THEN SummaryOf(summary, "baseline").quality_comment_rate
    ELSE FloatZero

\* The verdict loop with "<=" for "<"
RECURSIVE BestLoopNotStrict(_, _, _, _, _)
BestLoopNotStrict(summary, order, k, best, best_rate) ==
    IF k > Len(order) THEN [best_intervention |-> best, best_rate |-> best_rate]
    ELSE LET rate == SummaryOf(summary, order[k]).quality_comment_rate
         IN  IF order[k] # "baseline" /\ ~FloatLess(best_rate, rate)
             THEN BestLoopNotStrict(summary, order, k + 1, order[k], rate)
             ELSE BestLoopNotStrict(summary, order, k + 1, best, best_rate)

\* The verdict loop over condition_order, from position k on
RECURSIVE BestLoop(_, _, _, _, _)
BestLoop(summary, order, k, best, best_rate) ==
    IF k > Len(order) THEN [best_intervention |-> best, best_rate |-> best_rate]
    ELSE LET rate == SummaryOf(summary, order[k]).quality_comment_rate
         IN  IF order[k] # "baseline" /\ FloatLess(rate, best_rate)
             THEN BestLoop(summary, order, k + 1, order[k], rate)
             ELSE BestLoop(summary, order, k + 1, best, best_rate)

StrongThreshold == 30

ModerateThreshold == 15

\* improvement = (baseline_rate - best_rate) * 100
Improvement(base, best) == FloatMulInt(FloatSub(base, best), 100)

\* The verdict of lines 123-137
Verdict(best_intervention, improvement) ==
    IF best_intervention = "None" THEN "No improvement detected"
    ELSE IF FloatGeq(improvement, FloatOfInt(StrongThreshold)) THEN "Strong improvement"
    ELSE IF FloatGeq(improvement, FloatOfInt(ModerateThreshold)) THEN "Moderate improvement"
    ELSE "Modest improvement"

\* detailed.get(condition, [])
DetailedOf(detailed, condition) ==
    IF \E i \in 1..Len(detailed) : detailed[i].name = condition
    THEN detailed[CHOOSE i \in 1..Len(detailed) : detailed[i].name = condition].results
    ELSE <<>>

\* The runs listed for one prompt under one condition: the condition's
\* results with that prompt, numbered as enumerate() meets them
prompt_runs(detailed, condition, prompt) ==
    LET prompt_results == SelectSeq(DetailedOf(detailed, condition),
                                    LAMBDA r : r.prompt = prompt)
    IN  [j \in 1..Len(prompt_results) |->
            [run_num              |-> j,
             flagged              |-> prompt_results[j].has_quality_comment,
             response_text        |-> prompt_results[j].response_text,
             pattern_match        |-> prompt_results[j].pattern_match,
             pattern_matched_text |-> prompt_results[j].pattern_matched_text,
             llm_match            |-> prompt_results[j].llm_match,
             llm_matched_text     |-> prompt_results[j].llm_matched_text,
             llm_category         |-> prompt_results[j].llm_category,
             llm_explanation      |-> prompt_results[j].llm_explanation]]

\* prompt_data: for each prompt, the runs of each condition in condition_order
prompt_data(doc, order) ==
    [i \in 1..Len(doc.prompts) |->
        [index |-> i - 1,
         text  |-> doc.prompts[i],
         conditions |->
            [c \in 1..Len(order) |->
                LET runs == prompt_runs(doc.detailed_results, order[c], doc.prompts[i])
                IN  [name |-> order[c],
                     runs |-> runs,
                     flagged_count |-> Cardinality({j \in 1..Len(runs) : runs[j].flagged}),
                     total |-> Len(runs)]]]]

\* generate_html, up to the verdict
generate_html(doc) ==
    LET order == condition_order(doc.summary)
        base  == baseline_rate(doc.summary)
        best  == BestLoop(doc.summary, order, 1, "None", base)
        improvement == IF best.best_intervention = "None" THEN FloatZero
                       ELSE Improvement(base, best.best_rate)
    IN  [condition_order   |-> order,
         baseline_rate     |-> base,
         prompt_data       |-> prompt_data(doc, order),
         best_intervention |-> best.best_intervention,
         best_rate         |-> best.best_rate,
         improvement       |-> improvement,
         verdict           |-> Verdict(best.best_intervention, improvement)]

GenerateHtml ==
    /\ pc = "saved"
    /\ report' = generate_html(data)
    /\ pc' = "reported"
    /\ UNCHANGED <<conditions, resolvable, runs_per_prompt, use_llm_detection,
                   responseSource, judge, ci, pi, run, call_count, response,
                   last_error, results, experiment, attempts, completions,
                   comparison, data>>

-----------------------------------------------------------------------------
(* Specifications *)

Next ==
    \/ StartCondition
    \/ CallApi
    \/ Classify
    \/ HandleException
    \/ ReturnCondition
    \/ ReturnExperiment
    \/ PrintComparison
    \/ SaveResults
    \/ GenerateHtml

Spec == Init /\ [][Next]_vars

\* The statistics of one condition in a results file
SummaryEntry(name, count, total) ==
    [name                  |-> name,
     system_prompt         |-> "prompt.txt",
     total_runs            |-> total,
     quality_comment_count |-> count,
     quality_comment_rate  |-> IF total # 0 THEN FloatDiv(count, total) ELSE FloatZero,
     pattern_matches       |-> count,
     llm_matches           |-> 0]

\* The condition names of the results files tried, in file order
DocumentShapes ==
    {<<"baseline">>,
     <<"baseline", "v2a_tone_only">>,
     <<"v2a_tone_only", "v2b_with_reminders">>,
     <<"v2a_tone_only", "baseline", "v2b_with_reminders">>}

Stats(max) == {st \in (0..max) \X (0..max) : st[1] <= st[2]}

\* generate_report.py run on a results file: the file's summary is any
\* sequence of per-condition statistics with count <= total
InitReport ==
    /\ \E shape \in DocumentShapes :
         \E stats \in [1..Len(shape) -> Stats(IF Len(shape) <= 2 THEN MaxTotal ELSE MaxTotalWide)] :
            data = [runs_per_prompt |-> 1, prompts |-> TEST_PROMPTS,
                    summary |-> [i \in 1..Len(shape) |->
                                    SummaryEntry(shape[i], stats[i][1], stats[i][2])],
                    detailed_results |-> <<>>]
    /\ pc = "saved"
    /\ conditions = Conditions
    /\ resolvable = PromptFiles
    /\ runs_per_prompt = 1
    /\ use_llm_detection = TRUE
    /\ responseSource = Responses
    /\ judge = Replies
    /\ ci = 1
    /\ pi = 1
    /\ run = 0
    /\ call_count = 0
    /\ response = None
    /\ last_error = "None"
    /\ results = <<>>
    /\ experiment = <<>>
    /\ attempts = <<>>
    /\ completions = <<>>
    /\ comparison = NoComparison
    /\ report = NoReport

NextReport == GenerateHtml

SpecReport == InitReport /\ [][NextReport]_vars

\* Texts the Response Source may return, among them texts longer than the
\* opening that detect_pattern reads
ReallyGoodText == <<"T", "h", "a", "t", "'", "s", " ", "a", " ", "r", "e", "a", "l", "l", "y", " ", "g", "o", "o", "d", " ", "q", "u", "e", "s", "t", "i", "o", "n", ".">>
FirstDontText == <<"F", "i", "r", "s", "t", ",", " ", "d", "o", "n", "t", " ", "w", "o", "r", "r", "y", ".">>
LaterPhraseText == <<"H", "o", "n", "e", "s", "t", "l", "y", ",", " ", "g", "r", "e", "a", "t", " ", "q", "u", "e", "s", "t", "i", "o", "n", "!">>
Padding(n) == [i \in 1..n |-> "x"]
LongPadding == Padding(OpeningChars)
LatePhraseText == Padding(OpeningChars) \o GreatQuestionText
LongMatchText == GreatQuestionText \o Padding(OpeningChars)
LongMatchTwin == SubSeq(LongMatchText, 1, OpeningChars) \o PlainText

DetectTexts ==
    {GreatQuestionText, PlainText, ReallyGoodText, FirstDontText, LaterPhraseText,
     LongPadding, LatePhraseText, LongMatchText, LongMatchTwin}

\* A JSON body between fence marks, the opening mark followed by word
Fenced(word, body) == <<"FENCE">> \o word \o <<"\n", body, "\n", "FENCE">>

\* Replies of the judge: JSON objects bare and fenced (with and without the
\* word json after the opening mark), a JSON array, and prose
DetectReplies ==
    {<<"OBJ_TRUE">>, <<"OBJ_FALSE">>, <<"ARRAY">>, <<"I cannot answer">>,
     Fenced(<<"json">>, "OBJ_TRUE"), Fenced(<<"json">>, "OBJ_FALSE"),
     Fenced(<<>>, "OBJ_TRUE"), Fenced(<<>>, "OBJ_FALSE"),
     <<"\n">> \o Fenced(<<"json">>, "OBJ_TRUE") \o <<"\n">>}

\* One trial of run_condition from the point where call_api has returned:
\* any of the texts, any of the judge's replies
InitDetect ==
    /\ conditions = Conditions
    /\ resolvable = PromptFiles
    /\ runs_per_prompt = 1
    /\ use_llm_detection \in BOOLEAN
    /\ response \in DetectTexts
    /\ responseSource = {response}
    /\ \E reply \in DetectReplies : judge = {reply}
    /\ pc = "classify"
    /\ ci = 1
    /\ pi = 1
    /\ run = 0
    /\ call_count = 1
    /\ last_error = "None"
    /\ results = <<>>
    /\ experiment = <<>>
    /\ attempts = <<[c |-> Conditions[1].name, p |-> 1, r |-> 0]>>
    /\ completions = <<>>
    /\ comparison = NoComparison
    /\ data = EmptyDocument
    /\ report = NoReport

NextDetect == Classify

SpecDetect == InitDetect /\ [][NextDetect]_vars

\* A step of run_experiment or of the run_condition it has called
RunExperimentStep ==
    \/ StartCondition
    \/ CallApi
    \/ Classify
    \/ HandleException
    \/ ReturnCondition
    \/ ReturnExperiment

\* main where run_experiment runs on while it can: the interpreter executes
\* its next statement, and every call to a service returns or raises
SpecLive == Init /\ [][Next]_vars /\ WF_vars(RunExperimentStep)

\* The condition names of the experiments compared, in insertion order
CompareShapes ==
    {<<"baseline", "v2a_tone_only">>,
     <<"v2a_tone_only", "v2b_with_reminders">>,
     <<"v2b_with_reminders">>}

\* The result lists of a condition: up to MaxResults trials, each with one of
\* the Response Source's texts and without the judge
ResultLists ==
    LET trials == {DetectionResult(TEST_PROMPTS[1], text, detect_pattern(text), NoLlm) :
                      text \in Responses}
    IN  UNION {[1..n -> trials] : n \in 0..MaxResults}

\* main after run_experiment has returned, for any ExperimentResults
InitCompare ==
    /\ \E shape \in CompareShapes :
         \E lists \in [1..Len(shape) -> ResultLists] :
            /\ conditions = [i \in 1..Len(shape) |->
                                [name |-> shape[i], system_prompt_name |-> "prompt.txt"]]
            /\ experiment = [i \in 1..Len(shape) |->
                                [name |-> shape[i], system_prompt_name |-> "prompt.txt",
                                 results |-> lists[i]]]
    /\ pc = "done"
    /\ resolvable = {"prompt.txt"}
    /\ runs_per_prompt = MaxResults
    /\ use_llm_detection = FALSE
    /\ responseSource = Responses
    /\ judge = Replies
    /\ ci = Len(conditions) + 1
    /\ pi = 1
    /\ run = 0
    /\ call_count = 0
    /\ response = None
    /\ last_error = "None"
    /\ results = <<>>
    /\ attempts = <<>>
    /\ completions = <<>>
    /\ comparison = NoComparison
    /\ data = EmptyDocument
    /\ report = NoReport

NextCompare ==
    \/ PrintComparison
    \/ SaveResults
    \/ GenerateHtml

SpecCompare == InitCompare /\ [][NextCompare]_vars

\* Ctrl-C while run_experiment runs: KeyboardInterrupt is no Exception, so the
\* except clause of run_condition does not catch it, and neither run_experiment
\* nor main has a handler: the process ends with the traceback.
KeyboardInterrupt ==
    /\ pc \in {"run_experiment", "cell", "classify", "except"}
    /\ pc' = "interrupted"
    /\ UNCHANGED <<conditions, resolvable, runs_per_prompt, use_llm_detection,
                   responseSource, judge, ci, pi, run, call_count, response,
                   last_error, results, experiment, attempts, completions,
                   comparison, data, report>>

NextCancel ==
    \/ Next
    \/ KeyboardInterrupt

\* main with the user free to interrupt it
SpecCancel == Init /\ [][NextCancel]_vars

-----------------------------------------------------------------------------
(* Properties *)

Range(seq) == {seq[i] : i \in 1..Len(seq)}

Finished == {"done", "printed", "saved", "reported"}

InCondition == {"cell", "classify", "except"}

\* The result list of the k-th condition: stored in the experiment once
\* run_condition has returned, run_condition's local list while it runs
ResultsOf(k) ==
    IF k <= Len(experiment) THEN experiment[k].results
    ELSE IF k = ci /\ pc \in InCondition THEN results
    ELSE <<>>

\* Every DetectionResult that exists
AllResults == UNION {Range(ResultsOf(k)) : k \in 1..Len(conditions)}

\* The cells of the k-th condition, all of them and the completed ones
CellsOf(k) ==
    {[c |-> conditions[k].name, p |-> p, r |-> r] :
        p \in 1..Len(TEST_PROMPTS), r \in 0..(runs_per_prompt - 1)}

CompletedOf(k) == SelectSeq(completions, LAMBDA x : x.c = conditions[k].name)

ConditionIndex(name) == CHOOSE k \in 1..Len(conditions) : conditions[k].name = name

\* Cell x comes before cell y in the order conditions, prompts, runs
Before(x, y) ==
    \/ ConditionIndex(x.c) < ConditionIndex(y.c)
    \/ /\ x.c = y.c
       /\ \/ x.p < y.p
          \/ x.p = y.p /\ x.r < y.r

PromptPosition(prompt) == CHOOSE p \in 1..Len(TEST_PROMPTS) : TEST_PROMPTS[p] = prompt

\* C1: has_quality_comment is true iff pattern_match or llm_match is true and
\* false iff both are false, in all four combinations of the two channels;
\* the serialized has_quality_comment and the flagged count follow it.
C1_OverallFlag ==
    /\ \A r \in AllResults :
          /\ (r.pattern_match /\ r.llm_match) => has_quality_comment(r) = TRUE
          /\ (r.pattern_match /\ ~r.llm_match) => has_quality_comment(r) = TRUE
          /\ (~r.pattern_match /\ r.llm_match) => has_quality_comment(r) = TRUE
          /\ (~r.pattern_match /\ ~r.llm_match) => has_quality_comment(r) = FALSE
    /\ \A k \in 1..Len(data.detailed_results) :
          \A d \in Range(data.detailed_results[k].results) :
             d.has_quality_comment = ~(d.pattern_match = FALSE /\ d.llm_match = FALSE)

\* C1 witness: a finished run whose results show all four combinations
C1_AllFourCombinations ==
    /\ pc = "saved"
    /\ {<<r.pattern_match, r.llm_match>> : r \in AllResults} = BOOLEAN \X BOOLEAN

\* C2: matched_text is the semantic channel's text whenever it has one,
\* otherwise the pattern channel's text, otherwise None.
C2_SemanticTextPreferred ==
    \A r \in AllResults :
       matched_text(r) = IF r.llm_matched_text # None THEN r.llm_matched_text
                         ELSE IF r.pattern_matched_text # None THEN r.pattern_matched_text
                         ELSE None

\* C3: a failure of call_api or detect_llm in one cell does not end the run:
\* the run aborts only on an unresolvable system prompt, every condition that
\* has returned had all its cells attempted, and a finished run attempted
\* every cell of every condition.
C3_FailureIsolation ==
    /\ pc = "aborted" => conditions[ci].system_prompt_name \notin resolvable
    /\ \A k \in 1..Len(experiment) : CellsOf(k) \subseteq Range(attempts)
    /\ pc \in Finished =>
          \A k \in 1..Len(conditions) : CellsOf(k) \subseteq Range(attempts)

\* C3 witness: detect_llm failed for a cell of the first condition, and a
\* later cell of that condition and a cell of the next condition completed
C3_ContinuedAfterFailure ==
    /\ pc = "done"
    /\ last_error = "detect_llm"
    /\ \E i, j, k \in 1..Len(attempts) :
          /\ i < j /\ j < k
          /\ attempts[i] \notin Range(completions)
          /\ attempts[j].c = attempts[i].c
          /\ attempts[j] \in Range(completions)
          /\ attempts[k].c # attempts[i].c
          /\ attempts[k] \in Range(completions)

\* C4: a condition's result list holds exactly one DetectionResult for each
\* cell whose calls all completed, in that order and with that cell's prompt,
\* and none for a cell that failed; total_runs counts the completed cells.
C4_OneResultPerCompletedCell ==
    /\ \A i, j \in 1..Len(completions) : i # j => completions[i] # completions[j]
    /\ Range(completions) \subseteq Range(attempts)
    /\ \A k \in 1..Len(conditions) :
          /\ Len(ResultsOf(k)) = Len(CompletedOf(k))
          /\ total_runs(ResultsOf(k)) = Cardinality(Range(CompletedOf(k)))
          /\ \A i \in 1..Len(ResultsOf(k)) :
                i <= Len(CompletedOf(k)) =>
                   ResultsOf(k)[i].prompt = TEST_PROMPTS[CompletedOf(k)[i].p]
    /\ pc \in {"saved", "reported"} =>
          \A k \in 1..Len(data.summary) :
             data.summary[k].total_runs = Len(CompletedOf(k))

\* C4 witness: a saved run in which a condition has a failed cell and a
\* completed one
C4_SkippedAndCompleted ==
    /\ pc = "saved"
    /\ \E x, y \in Range(attempts) :
          /\ x.c = y.c
          /\ x \notin Range(completions)
          /\ y \in Range(completions)

CountFields == {"total_runs", "quality_comment_count", "pattern_matches", "llm_matches"}

\* C5: the saved document reports, for each condition, the number of
\* attempted trials and the number of completed trials.
C5_AttemptedAndCompletedReported ==
    pc = "saved" =>
       \A k \in 1..Len(data.summary) :
          \E fa, fc \in CountFields :
             /\ fa # fc
             /\ data.summary[k][fa] = Cardinality(CellsOf(k) \cap Range(attempts))
             /\ data.summary[k][fc] = Len(CompletedOf(k))

\* C6: after any sequence of appended trials, 0 <= quality_comment_rate <= 1,
\* and the rate is 0 exactly when quality_comment_count is 0.
C6_RateBounds ==
    \A k \in 1..Len(conditions) :
       LET q == quality_comment_rate(ResultsOf(k))
       IN  /\ q.raised = "None"
           /\ FloatGeq(q.value, FloatZero)
           /\ FloatGeq(FloatOfInt(1), q.value)
           /\ q.value.zero <=> quality_comment_count(ResultsOf(k)) = 0
           /\ q.value = FloatOfInt(1) <=>
                 /\ total_runs(ResultsOf(k)) > 0
                 /\ quality_comment_count(ResultsOf(k)) = total_runs(ResultsOf(k))

\* C6 witness: a condition with a rate strictly between 0 and 1 beside a
\* condition with completed trials and rate 0
C6_RatesBetween ==
    /\ pc = "saved"
    /\ \E k \in 1..Len(conditions) :
          /\ 0 < quality_comment_count(ResultsOf(k))
          /\ quality_comment_count(ResultsOf(k)) < total_runs(ResultsOf(k))
    /\ \E k \in 1..Len(conditions) :
          /\ total_runs(ResultsOf(k)) > 0
          /\ quality_comment_count(ResultsOf(k)) = 0

\* C7: with no completed trial the rate is defined and equal to 0, reading it
\* never raises, and the comparison and the document carry that rate.
C7_EmptyConditionRateIsZero ==
    /\ pc # "raised"
    /\ \A k \in 1..Len(conditions) :
          total_runs(ResultsOf(k)) = 0 =>
             quality_comment_rate(ResultsOf(k)) = Returns(FloatZero)
    /\ \A k \in 1..Len(data.summary) :
          data.summary[k].total_runs = 0 => data.summary[k].quality_comment_rate.zero
    /\ \A k \in 1..Len(comparison.rows) :
          comparison.rows[k].total = 0 => comparison.rows[k].rate.zero

\* C7 witness: every cell of a condition failed, another condition has
\* completed trials, and the comparison and the document were produced
C7_AllCellsFailedStillSaved ==
    /\ pc = "saved"
    /\ runs_per_prompt > 0
    /\ Len(comparison.rows) = Len(conditions)
    /\ \E k \in 1..Len(data.summary) : data.summary[k].total_runs = 0
    /\ \E k \in 1..Len(data.summary) : data.summary[k].total_runs > 0

\* Exact arithmetic on the counts of a results file
ExactLess(x, y) ==
    (IF x.total_runs = 0 THEN 0 ELSE x.quality_comment_count)
        * (IF y.total_runs = 0 THEN 1 ELSE y.total_runs)
    < (IF y.total_runs = 0 THEN 0 ELSE y.quality_comment_count)
        * (IF x.total_runs = 0 THEN 1 ELSE x.total_runs)

Interventions(summary) == {c \in Range(summary) : c.name # "baseline"}

HasBaseline(summary) == \E c \in Range(summary) : c.name = "baseline"

\* (base.rate - best.rate) * 100 >= points, on the exact rates
ExactImprovementAtLeast(base, best, points) ==
    LET bn == IF base.total_runs = 0 THEN 0 ELSE base.quality_comment_count
        bd == IF base.total_runs = 0 THEN 1 ELSE base.total_runs
        xn == IF best.total_runs = 0 THEN 0 ELSE best.quality_comment_count
        xd == IF best.total_runs = 0 THEN 1 ELSE best.total_runs
    IN  100 * (bn * xd - xn * bd) >= points * bd * xd

\* C8: with improvement = (baseline.rate - best.rate) * 100, the verdict is
\* strong for improvement >= 30, moderate for 15 <= improvement < 30, modest
\* for 0 < improvement < 15 and "no improvement" when no intervention is
\* below the baseline, for every pair of rates arising from counts.
C8_ExactTierBoundaries ==
    pc = "reported" =>
       IF report.best_intervention = "None"
       THEN report.verdict = "No improvement detected"
       ELSE LET base == SummaryOf(data.summary, "baseline")
                best == SummaryOf(data.summary, report.best_intervention)
            IN  report.verdict =
                   IF ExactImprovementAtLeast(base, best, StrongThreshold)
                   THEN "Strong improvement"
                   ELSE IF ExactImprovementAtLeast(base, best, ModerateThreshold)
                   THEN "Moderate improvement"
                   ELSE "Modest improvement"

\* C9: the best intervention is a non-baseline condition with the lowest rate,
\* chosen only if that rate is strictly below the baseline's; when there is no
\* such condition none is chosen and the verdict is "No improvement detected".
C9_BestIntervention ==
    pc = "reported" =>
       LET summary == data.summary
           lower   == {c \in Interventions(summary) :
                          /\ HasBaseline(summary)
                          /\ ExactLess(c, SummaryOf(summary, "baseline"))}
       IN  /\ lower = {} =>
                /\ report.best_intervention = "None"
                /\ report.verdict = "No improvement detected"
           /\ lower # {} =>
                /\ \E c \in lower :
                      /\ c.name = report.best_intervention
                      /\ \A d \in Interventions(summary) : ~ExactLess(d, c)
                /\ report.verdict # "No improvement detected"

\* C9 witness: two interventions below the baseline, the lower one chosen,
\* though the other one comes first in the file
C9_LowestOfTwoChosen ==
    /\ pc = "reported"
    /\ Len(data.summary) = 3
    /\ report.best_intervention = "v2b_with_reminders"
    /\ ExactLess(SummaryOf(data.summary, "v2a_tone_only"),
                 SummaryOf(data.summary, "baseline"))
    /\ ExactLess(SummaryOf(data.summary, "v2b_with_reminders"),
                 SummaryOf(data.summary, "v2a_tone_only"))

\* C10: trials run, and results are appended, in the order conditions, then
\* prompts, then run indices: attempts and completions ascend in that order
\* and each result list is sorted by prompt position.
C10_DeterministicOrder ==
    /\ \A i, j \in 1..Len(attempts) : i < j => Before(attempts[i], attempts[j])
    /\ \A i, j \in 1..Len(completions) : i < j => Before(completions[i], completions[j])
    /\ \A k \in 1..Len(conditions) :
          \A i, j \in 1..Len(ResultsOf(k)) :
             i < j => PromptPosition(ResultsOf(k)[i].prompt)
                         <= PromptPosition(ResultsOf(k)[j].prompt)

\* C10 witness: a run with two runs per prompt in which every cell of both
\* conditions completed
C10_FullMatrixCompleted ==
    /\ pc = "done"
    /\ runs_per_prompt = 2
    /\ Len(completions) = Len(conditions) * Len(TEST_PROMPTS) * runs_per_prompt

\* C11: for each cell the Response Source is invoked exactly once; the
\* classification happens at most once per cell, only on the response
\* returned for that cell; its DetectionResult is appended to the list of the
\* condition that owns the cell, which is stored under that condition's name.
C11_OncePerCell ==
    /\ [](/\ Cardinality(Range(attempts)) = Len(attempts)
          /\ pc \in InCondition =>
                call_count = Cardinality({i \in 1..Len(attempts) :
                                            attempts[i].c = conditions[ci].name})
          /\ pc \in Finished =>
                \A k \in 1..Len(conditions) : CellsOf(k) \subseteq Range(attempts)
          /\ pc = "classify" =>
                /\ attempts[Len(attempts)] = Cell
                /\ Cell \notin Range(completions)
                /\ response \in responseSource
          /\ \A k \in 1..Len(experiment) : experiment[k].name = conditions[k].name
          /\ \A k \in 1..Len(conditions) :
                Len(ResultsOf(k)) = Len(CompletedOf(k)))
    /\ [][/\ attempts' # attempts =>
                /\ pc = "cell"
                /\ attempts' = Append(attempts, Cell)
          /\ completions' # completions =>
                /\ pc = "classify"
                /\ completions' = Append(completions, Cell)
                /\ results' = Append(results, results'[Len(results')])
                /\ results'[Len(results')].response_text = response
                /\ results'[Len(results')].prompt = TEST_PROMPTS[pi]
                /\ experiment' = experiment
          /\ (results' # results /\ pc # "run_experiment") =>
                completions' # completions
          /\ (experiment' # experiment /\ pc = "cell") =>
                experiment' = Append(experiment,
                                  [name |-> conditions[ci].name,
                                   system_prompt_name |-> conditions[ci].system_prompt_name,
                                   results |-> results])]_vars

\* C11 witness: a finished run of four cells, two of them classified and
\* recorded, one under each condition
C11_EachCellCalledOnce ==
    /\ pc = "done"
    /\ Len(attempts) = 4
    /\ Len(completions) = 2
    /\ \A k \in 1..Len(experiment) : Len(experiment[k].results) = 1

\* C12: when some condition's system prompt cannot be resolved, no trial of
\* any condition runs: the Response Source is never called.
C12_NoTrialWithUnresolvableReference ==
    (\E k \in 1..Len(conditions) :
        load_system_prompt(conditions[k].system_prompt_name) # "None")
    => /\ attempts = <<>>
       /\ call_count = 0

C19_NoLlmDetection ==
    /\ [](~use_llm_detection =>
             /\ \A r \in AllResults :
                   /\ r.llm_match = FALSE
                   /\ r.llm_matched_text = None
                   /\ r.llm_category = "None"
                   /\ r.llm_explanation = "None"
                   /\ has_quality_comment(r) = r.pattern_match
             /\ last_error \in {"None", "call_api"}
             /\ \A x \in Range(attempts) \ Range(completions) :
                   \/ last_error = "call_api"
                   \/ x = Cell /\ pc = "classify")
    /\ [][(~use_llm_detection /\ pc = "classify") =>
              /\ pc' = "cell"
              /\ completions' = Append(completions, Cell)]_vars

\* C19 witness: a saved run without the judge, with a pattern match, a
\* response without one and a cell skipped because call_api failed
C19_PatternOnlyRun ==
    /\ pc = "saved"
    /\ ~use_llm_detection
    /\ \E r \in AllResults : r.pattern_match
    /\ \E r \in AllResults : ~r.pattern_match
    /\ Len(completions) < Len(attempts)

\* C18: print_comparison, to_dict and generate_html only read: they leave the
\* experiment (every condition's result list, its order, every field) and
\* the saved document unchanged, and calling them again on what they were
\* given yields what they produced.
C18_AggregationOnlyReads ==
    /\ [](/\ pc \in {"printed", "saved", "reported"} =>
                comparison = print_comparison(experiment)
          /\ pc \in {"saved", "reported"} => data = to_dict(experiment)
          /\ pc = "reported" => report = generate_html(data))
    /\ [][/\ pc \in {"done", "printed", "saved"} => experiment' = experiment
          /\ pc \in {"done", "printed", "saved"} => results' = results
          /\ pc \in {"done", "saved"} => data' = data]_vars

\* C18 witness: a reported run in which the second condition has the higher
\* rate, so that sorting by rate puts it before the first
C18_ReportedRunUnsorted ==
    /\ pc = "reported"
    /\ Len(experiment) = 2
    /\ experiment[1].name = "baseline"
    /\ Len(experiment[1].results) = 2
    /\ FloatLess(Rate(experiment[1].results), Rate(experiment[2].results))
    /\ comparison.rows[1].name = experiment[2].name

\* The run indices of the completed cells of one condition and prompt, in the
\* order in which their results were appended
CompletedRuns(name, p) ==
    LET cells == SelectSeq(completions, LAMBDA x : x.c = name /\ x.p = p)
    IN  [j \in 1..Len(cells) |-> cells[j].r]

\* C20: the report lists each result under its own run: the entry numbered
\* k for a condition and prompt is the result of the k-th run of that cell,
\* also when an earlier run of the prompt was skipped.
C20_ResultsKeyedByRun ==
    pc = "reported" =>
       \A i \in 1..Len(report.prompt_data) :
          \A c \in 1..Len(report.prompt_data[i].conditions) :
             LET entry == report.prompt_data[i].conditions[c]
             IN  \A j \in 1..Len(entry.runs) :
                    entry.runs[j].run_num = CompletedRuns(entry.name, i)[j] + 1

\* The JSON body of a reply, its fence marks and line breaks set aside
JsonBody(reply) == SelectSeq(reply, LAMBDA t : t \notin {"FENCE", "json", "\n"})

\* The reply carries a JSON object
CarriesObject(reply) ==
    /\ Len(JsonBody(reply)) = 1
    /\ JsonBody(reply)[1] \in DOMAIN JsonValues
    /\ JsonValues[JsonBody(reply)[1]].kind = "object"

IsFenced(reply) ==
    LET text == SelectSeq(reply, LAMBDA t : t # "\n")
    IN  Len(text) >= 2 /\ text[1] = "FENCE" /\ text[Len(text)] = "FENCE"

\* C13: a reply of the judge that does not parse as the structured answer
\* does not make detect_llm raise: the trial is recorded, with llm_match
\* false and no llm text, category or explanation, and is not skipped.
C13_MalformedReplyIsNonMatch ==
    \A reply \in judge :
       (use_llm_detection /\ ~CarriesObject(reply)) =>
          /\ pc = "except" => last_error = "detect_llm"
          /\ \A r \in AllResults :
                /\ r.llm_match = FALSE
                /\ r.llm_matched_text = None
                /\ r.llm_category = "None"
                /\ r.llm_explanation = "None"

\* C14: a JSON object between fence marks (the opening mark alone or
\* followed by json) is classified as the same object without the fence.
C14_FencedSameAsUnfenced ==
    \A reply \in judge :
       (use_llm_detection /\ IsFenced(reply) /\ CarriesObject(reply)) =>
          \A r \in AllResults :
             LET bare == detect_llm(JsonBody(reply))
             IN  /\ r.llm_match = bare.match
                 /\ r.llm_matched_text = bare.text
                 /\ r.llm_category = bare.category
                 /\ r.llm_explanation = bare.explanation

\* text[:n], written out
Prefix(text, n) == SubSeq(text, 1, IF Len(text) < n THEN Len(text) ELSE n)

\* Some rule's phrase stands at position pos of text
PhraseAt(text, pos) ==
    \E k \in 1..Len(QUESTION_QUALITY_PATTERNS) :
       MatchFrom(QUESTION_QUALITY_PATTERNS[k], 1, text, pos) # 0

PhraseOnlyAfter(text, n) ==
    /\ \E pos \in (n + 1)..Len(text) : PhraseAt(text, pos)
    /\ \A pos \in 1..n : pos <= Len(text) => ~PhraseAt(text, pos)

\* C15: detect_pattern reads only the first 300 characters: a text that
\* agrees with a classified response on its first 300 characters gets the
\* same result, and a phrase that occurs only after character 300 gives
\* (False, None).
C15_OnlyOpeningInspected ==
    \A r \in AllResults :
       /\ \A t \in DetectTexts :
             Prefix(t, OpeningChars) = Prefix(r.response_text, OpeningChars) =>
                detect_pattern(t) = [match |-> r.pattern_match,
                                     text  |-> r.pattern_matched_text]
       /\ PhraseOnlyAfter(r.response_text, OpeningChars) =>
             /\ r.pattern_match = FALSE
             /\ r.pattern_matched_text = None

\* C15 witness: a response with a phrase right after character 300 was
\* classified as no match, like the text that ends at character 300
C15_LatePhraseClassified ==
    /\ \E r \in AllResults :
          /\ r.response_text = LatePhraseText
          /\ r.pattern_match = FALSE
    /\ Prefix(LatePhraseText, OpeningChars) = LongPadding
    /\ PhraseAt(LatePhraseText, OpeningChars + 1)

\* C16: detect_pattern returns on the first rule, in list order, that matches
\* the opening, with exactly the text that rule matched; with no matching
\* rule it returns (False, None).
C16_FirstRuleInOrder ==
    \A r \in AllResults :
       LET opening == Prefix(r.response_text, OpeningChars)
           ends == [k \in 1..Len(QUESTION_QUALITY_PATTERNS) |->
                       MatchFrom(QUESTION_QUALITY_PATTERNS[k], 1, opening, 1)]
           matching == {k \in DOMAIN ends : ends[k] # 0}
       IN  IF matching = {}
           THEN r.pattern_match = FALSE /\ r.pattern_matched_text = None
           ELSE /\ r.pattern_match = TRUE
                /\ \E k \in matching :
                      /\ \A j \in matching : k <= j
                      /\ r.pattern_matched_text = SubSeq(opening, 1, ends[k] - 1)

ReallyGoodMatch == <<"T", "h", "a", "t", "'", "s", " ", "a", " ", "r", "e", "a", "l", "l", "y", " ", "g", "o", "o", "d", " ", "q", "u", "e", "s", "t", "i", "o", "n">>

\* C16 witness: a response matched by the seventh rule, through its ninth
\* alternative, is recorded with the text of that match
C16_SeventhRuleMatched ==
    \E r \in AllResults :
       /\ r.response_text = ReallyGoodText
       /\ r.pattern_match
       /\ r.pattern_matched_text = ReallyGoodMatch
       /\ MatchFrom(QUESTION_QUALITY_PATTERNS[7], 1, ReallyGoodText, 1) # 0

\* The cells given up: attempted, without a result, and no longer in hand
Skipped ==
    {x \in Range(attempts) :
        /\ x \notin Range(completions)
        /\ ~(pc \in {"classify", "except"} /\ x = Cell)}

\* C21: a cell whose call to the Response Source or the judge failed is tried
\* again, and is given up only after its retries.
C21_RetriedBeforeSkipped ==
    \A x \in Skipped : Cardinality({i \in 1..Len(attempts) : attempts[i] = x}) >= 2

\* C22: after a cancellation during run_experiment the results collected
\* before it are in the experiment's output.
C22_ResultsKeptOnCancellation ==
    pc = "interrupted" =>
       \A k \in 1..Len(conditions) :
          Len(CompletedOf(k)) =
             IF k <= Len(data.detailed_results)
             THEN Len(data.detailed_results[k].results)
             ELSE 0

\* C23: in the saved document each condition's summary agrees with its
\* detailed results: total_runs, quality_comment_count, pattern_matches and
\* llm_matches are the numbers of entries, of flagged entries and of entries
\* with each channel's flag, and
\* max(pattern_matches, llm_matches) <= quality_comment_count
\*    <= min(total_runs, pattern_matches + llm_matches).
C23_SummaryAgreesWithDetails ==
    pc \in {"saved", "reported"} =>
       \A k \in 1..Len(data.summary) :
          LET sm == data.summary[k]
              d  == DetailedOf(data.detailed_results, sm.name)
              n(flag(_)) == Cardinality({i \in 1..Len(d) : flag(d[i])})
          IN  /\ sm.total_runs = Len(d)
              /\ sm.quality_comment_count = n(LAMBDA e : e.has_quality_comment)
              /\ sm.pattern_matches = n(LAMBDA e : e.pattern_match)
              /\ sm.llm_matches = n(LAMBDA e : e.llm_match)
              /\ sm.pattern_matches <= sm.quality_comment_count
              /\ sm.llm_matches <= sm.quality_comment_count
              /\ sm.quality_comment_count <= sm.total_runs
              /\ sm.quality_comment_count <= sm.pattern_matches + sm.llm_matches

\* C23 witness: a saved run with a skipped trial in which a condition has one
\* entry flagged by the pattern channel only and one by the judge only
C23_ChannelsDisagree ==
    /\ pc = "saved"
    /\ Len(completions) < Len(attempts)
    /\ \E k \in 1..Len(data.summary) :
          /\ data.summary[k].pattern_matches = 1
          /\ data.summary[k].llm_matches = 1
          /\ data.summary[k].quality_comment_count = 2

\* C24: every rule is anchored to the start of the text, so a matched text is
\* a prefix of the response, and a response that has a phrase only after its
\* first character is not matched.
C24_MatchAtStartOnly ==
    \A r \in AllResults :
       /\ r.pattern_match =>
             /\ Len(r.pattern_matched_text) <= Len(r.response_text)
             /\ r.pattern_matched_text =
                   SubSeq(r.response_text, 1, Len(r.pattern_matched_text))
       /\ ~PhraseAt(r.response_text, 1) =>
             /\ r.pattern_match = FALSE
             /\ r.pattern_matched_text = None

\* C24 witness: a response with a phrase at its eleventh character was
\* classified as no match
C24_LaterPhraseUnmatched ==
    \E r \in AllResults :
       /\ r.response_text = LaterPhraseText
       /\ PhraseAt(LaterPhraseText, 11)
       /\ r.pattern_match = FALSE

\* C25: without a condition named baseline the baseline rate is 0, no
\* condition is below it and the verdict is "No improvement detected"
\* whatever the rates are; print_comparison prints no improvement line.
C25_NoBaselineNoImprovement ==
    (\A k \in 1..Len(experiment) : experiment[k].name # "baseline") =>
       /\ pc \in {"printed", "saved", "reported"} =>
             /\ comparison.improvements = <<>>
             /\ Len(comparison.rows) = Len(experiment)
       /\ pc = "reported" =>
             /\ report.baseline_rate = FloatZero
             /\ report.best_intervention = "None"
             /\ report.verdict = "No improvement detected"

\* C25 witness: a report on two interventions without a baseline, one
\* flagged in one of two trials and the other in none
C25_InterventionsOnlyReported ==
    /\ pc = "reported"
    /\ Len(experiment) = 2
    /\ \A k \in 1..Len(experiment) : experiment[k].name # "baseline"
    /\ total_runs(experiment[1].results) = 2
    /\ quality_comment_count(experiment[1].results) = 1
    /\ total_runs(experiment[2].results) = 1
    /\ quality_comment_count(experiment[2].results) = 0
    /\ report.verdict = "No improvement detected"

\* C26: when every system prompt resolves and every call returns or fails,
\* run_experiment returns, having attempted each of the
\* |conditions| x |TEST_PROMPTS| x runs_per_prompt cells exactly once, with
\* one entry per condition, whichever cells failed.
C26_RunExperimentTerminates ==
    /\ [](pc = "done" =>
             /\ Len(attempts) = Len(conditions) * Len(TEST_PROMPTS) * runs_per_prompt
             /\ Cardinality(Range(attempts)) = Len(attempts)
             /\ \A k \in 1..Len(conditions) : CellsOf(k) \subseteq Range(attempts)
             /\ Len(experiment) = Len(conditions)
             /\ \A k \in 1..Len(experiment) : experiment[k].name = conditions[k].name)
    /\ (resolvable = PromptFiles /\ pc = "run_experiment" /\ ci = 1) ~> (pc = "done")

\* C26 witness: run_experiment has returned from a run of eight cells of
\* which some failed and some completed, under each condition
C26_ReturnedWithFailures ==
    /\ pc = "done"
    /\ Len(attempts) = 8
    /\ \A k \in 1..Len(conditions) :
          /\ Len(CompletedOf(k)) > 0
          /\ Len(CompletedOf(k)) < 4

====
